---- MODULE Spec2Model ----
(***************************************************************************)
(* The HT-810 dashboard (React component App): file selection, the         *)
(* sequential upload batch onUpload, onReset, toggleLine, the date range   *)
(* inputs, and the derived views mergedData, activeSeries and showStats.   *)
(*                                                                         *)
(* Time is counted in ticks; a timestamp is a number of ticks.  What a     *)
(* request carries, what the server answers and what the user types are    *)
(* inputs, drawn from the small sets defined below.                        *)
(***************************************************************************)
EXTENDS Integers, Sequences, FiniteSets, TLC

VARIABLES
  files,        \* useState([])  : the pending selection, a sequence of file names
  series,       \* useState([])  : the series store
  loading,      \* useState(false)
  uploadError,  \* useState("")
  hiddenKeys,   \* useState([])  : names toggled off, in toggle order
  dateRange,    \* useState({start: "", end: ""})
  runs,         \* the invocations of the async function onUpload, by slot
  net,          \* the POST /api/upload exchanges that are outstanding
  sinceReset,   \* history: the number of requests issued since the last onReset,
                \* or -1 when a user action followed it (or there was none)
  pdf           \* the invocation of the async function exportPDF and its document

vars == <<files, series, loading, uploadError, hiddenKeys, dateRange,
          runs, net, sinceReset, pdf>>

---------------------------------------------------------------------------
(* Bounds of the model *)

\* ticks in one minute (60000 ms in the program, scaled down)
TicksPerMinute == 2
\* minutes in one year (scaled down)
MinutesPerYear == 4
\* the date inputs of the full specification go up to this minute
MaxDate == 1
\* slots for invocations of onUpload that are in flight together
MaxRuns == 2
\* SpecMerge: samples per series
MaxLen == 2

---------------------------------------------------------------------------
(* Values *)

\* the empty string of a date input: the bound is unset (falsy in the code)
NoBound == -1

\* the initial dateRange, {start: "", end: ""}
EmptyRange == [start |-> NoBound, end |-> NoBound]

\* stats: null in the response body
NoStats == [null |-> TRUE]

\* the palette
COLORS == <<"#22c55e", "#3b82f6", "#f59e0b", "#ef4444", "#a855f7">>

\* the fallback message of the catch block
GenericError == "Falha no upload/processamento"

\* slice(0, 5) of onFile
MaxFiles == 5

\* dayjs(t).format("DD/MM HH:mm"): day, month, hour and minute; the seconds
\* and the year are dropped
TimeLabel(t) == (t \div TicksPerMinute) % MinutesPerYear

\* dayjs(t).format("DD/MM/YYYY HH:mm"): the seconds are dropped
DateTimeLabel(t) == t \div TicksPerMinute

\* a run slot with no invocation in it
NoRun == [pc |-> "idle"]

\* an exchange the server has not answered yet
NoReply == [kind |-> "none", detail |-> "", body |-> NoStats]

\* no invocation of exportPDF has been made
NoExport == [pc |-> "idle"]

\* new jsPDF("landscape", "mm", "a4"): the page is 297 mm wide
PdfWidth == 297
\* and 210 mm high
PageHeight == 210
\* the margin: let y = 10, x = 10, pageHeight - 10
Margin == 10
\* the space left after a bitmap: y += height + 10
Gap == 10
\* the distance between two lines of the stats block
StatsLine == 8
\* the height of the stats block: y += 42
StatsBlock == 42

---------------------------------------------------------------------------
(* Inputs *)

\* the selections the file picker hands to onFile (e.target.files)
Selections ==
  { <<>>, <<"A">>, <<"A", "B">>, <<"B", "A">>, <<"A", "B", "C">> }

\* the file names that occur in the selections
FileNames == {"A", "B", "C"}

\* the values a datetime-local input can hold: "" or a whole minute
DateInputs == {NoBound} \cup {m * TicksPerMinute : m \in 1..MaxDate}

\* response bodies {data, stats, resampled} of a success response
Body1 ==
  [hasData |-> TRUE,
   data |-> << [timestamp |-> 0, temperature |-> 20],
               [timestamp |-> 2, temperature |-> 21] >>,
   stats |-> [min |-> 20, avg |-> 20, max |-> 21, start |-> 0, end |-> 2],
   hasResampled |-> TRUE,
   resampled |-> << [timestamp |-> 0, temperature |-> 20],
                    [timestamp |-> 2, temperature |-> 21] >>]

\* stats and resampled are null; the samples are not in time order with
\* those of Body1
Body2 ==
  [hasData |-> TRUE,
   data |-> << [timestamp |-> 3, temperature |-> 23],
               [timestamp |-> 1, temperature |-> 22] >>,
   stats |-> NoStats,
   hasResampled |-> FALSE,
   resampled |-> << >>]

\* one sample, a year after the first sample of Body1
Body3 ==
  [hasData |-> TRUE,
   data |-> << [timestamp |-> MinutesPerYear * TicksPerMinute, temperature |-> 25] >>,
   stats |-> [min |-> 25, avg |-> 25, max |-> 25,
              start |-> MinutesPerYear * TicksPerMinute,
              end |-> MinutesPerYear * TicksPerMinute],
   hasResampled |-> TRUE,
   resampled |-> << [timestamp |-> MinutesPerYear * TicksPerMinute, temperature |-> 25] >>]

\* a success response whose body has no data field
BodyNoData ==
  [hasData |-> FALSE, data |-> << >>, stats |-> NoStats,
   hasResampled |-> FALSE, resampled |-> << >>]

\* the body the endpoint computes from a file
BodyOf(file) ==
  CASE file = "A" -> Body1
    [] file = "B" -> Body2
    [] OTHER -> Body3

\* what the upload endpoint can answer to the request for a file
Replies(file) ==
  { [kind |-> "ok", detail |-> "", body |-> b] : b \in {BodyOf(file), BodyNoData} }
  \cup
  { [kind |-> "error", detail |-> d, body |-> NoStats] : d \in {"", "detail"} }

---------------------------------------------------------------------------
(* Helpers *)

\* a faulty variant: the end index is taken as included
SliceEndIncluded(s, n) == IF Len(s) <= n + 1 THEN s ELSE SubSeq(s, 1, n + 1)

\* Array.prototype.slice(0, n)
Slice(s, n) == IF Len(s) <= n THEN s ELSE SubSeq(s, 1, n)

\* Array.prototype.includes
Includes(s, x) == \E k \in 1..Len(s) : s[k] = x

\* the .table-wrap elements the render puts in #tables-section, one per
\* series in store order, with display: hidden ? "none" : "block"
TableElements ==
  [k \in 1..Len(series) |->
     [name |-> series[k].name, hidden |-> Includes(hiddenKeys, series[k].name)]]

\* the store is emptied, so #chart-section and #tables-section leave the
\* document: an invocation of exportPDF in flight keeps the elements it got,
\* as they were last rendered
Unmounted(p) ==
  IF p.pc \in {"chart", "table"} /\ p.attached
    THEN [p EXCEPT !.attached = FALSE, !.tables = TableElements]
    ELSE p


---------------------------------------------------------------------------
(* Upload Orchestrator: onFile, onUpload, onReset *)

\* a faulty variant: a new selection also clears the error message
onFileClearingError(sel) ==
  /\ files' = Slice(sel, MaxFiles)
  /\ uploadError' = ""
  /\ sinceReset' = -1
  /\ UNCHANGED <<series, loading, hiddenKeys, dateRange, runs, net, pdf>>

\* onFile: keep the first five of the selection
onFile(sel) ==
  /\ files' = Slice(sel, MaxFiles)
  /\ sinceReset' = -1
  /\ UNCHANGED <<series, loading, uploadError, hiddenKeys, dateRange, runs, net, pdf>>

\* a faulty variant: the button is not disabled while loading
UploadEnabledIgnoringLoading == Len(files) # 0

\* the Processar button: disabled={files.length === 0 || loading}
UploadEnabled == Len(files) # 0 /\ ~loading

\* the form of the request for files[i] (i counted from 0): the file, and
\* start/end when the closure's dateRange has them
Form(b, i) ==
  [file |-> b.files[i + 1], start |-> b.dateRange.start, end |-> b.dateRange.end]

\* a faulty variant: the requests of all the remaining files are issued together
\* (the posts are not awaited one by one)
IssueRequestsTogether(r, b) ==
  { [run |-> r, idx |-> j, form |-> Form(b, j), reply |-> NoReply] :
      j \in b.i..(Len(b.files) - 1) }

\* the for loop at index b.i: one axios.post, awaited, or none when the loop
\* is over
IssueRequests(r, b) ==
  IF b.i < Len(b.files)
    THEN { [run |-> r, idx |-> b.i, form |-> Form(b, b.i), reply |-> NoReply] }
    ELSE { }

\* the slot a new invocation of onUpload takes
FreeSlot == CHOOSE r \in 1..MaxRuns :
              /\ runs[r] = NoRun
              /\ \A q \in 1..(r - 1) : runs[q] # NoRun

\* a faulty variant: the start of a batch also clears the hidden names
onUploadClearingHidden ==
  /\ UploadEnabled
  /\ Len(files) # 0
  /\ \E r \in 1..MaxRuns : runs[r] = NoRun
  /\ LET r == FreeSlot
         b == [pc |-> "await", files |-> files, dateRange |-> dateRange,
               i |-> 0, results |-> << >>, storeBefore |-> series]
     IN /\ runs' = [runs EXCEPT ![r] = b]
        /\ net' = net \cup IssueRequests(r, b)
  /\ loading' = TRUE
  /\ uploadError' = ""
  /\ series' = << >>
  /\ hiddenKeys' = << >>
  /\ sinceReset' = -1
  /\ pdf' = Unmounted(pdf)
  /\ UNCHANGED <<files, dateRange>>

\* onUpload, from the click to its first await: the closure holds the files
\* and the dateRange of the render that was clicked
\* a faulty variant: the store is not emptied when the batch starts
onUploadKeepingSeries ==
  /\ UploadEnabled
  /\ Len(files) # 0
  /\ \E r \in 1..MaxRuns : runs[r] = NoRun
  /\ LET r == FreeSlot
         b == [pc |-> "await", files |-> files, dateRange |-> dateRange,
               i |-> 0, results |-> << >>, storeBefore |-> series]
     IN /\ runs' = [runs EXCEPT ![r] = b]
        /\ net' = net \cup IssueRequests(r, b)
  /\ loading' = TRUE
  /\ uploadError' = ""
  /\ sinceReset' = -1
  /\ UNCHANGED <<files, series, hiddenKeys, dateRange, pdf>>

onUpload ==
  /\ UploadEnabled
  /\ Len(files) # 0
  /\ \E r \in 1..MaxRuns : runs[r] = NoRun
  /\ LET r == FreeSlot
         b == [pc |-> "await", files |-> files, dateRange |-> dateRange,
               i |-> 0, results |-> << >>, storeBefore |-> series]
     IN /\ runs' = [runs EXCEPT ![r] = b]
        /\ net' = net \cup IssueRequests(r, b)
  /\ loading' = TRUE
  /\ uploadError' = ""
  /\ series' = << >>
  /\ sinceReset' = -1
  /\ pdf' = Unmounted(pdf)
  /\ UNCHANGED <<files, hiddenKeys, dateRange>>

\* the upload endpoint answers one outstanding request
serverReply(m, reply) ==
  /\ m \in net
  /\ m.reply = NoReply
  /\ net' = (net \ {m}) \cup { [m EXCEPT !.reply = reply] }
  /\ UNCHANGED <<files, series, loading, uploadError, hiddenKeys, dateRange,
                 runs, sinceReset, pdf>>

\* serie.map(...): a sample with its minute label
Shaped(d) ==
  [timestamp |-> d.timestamp, temperature |-> d.temperature,
   timeLabel |-> TimeLabel(d.timestamp)]

\* (resampled || []).map(...): a sample with its date and time label
ShapedResampled(d) ==
  [timestamp |-> d.timestamp, temperature |-> d.temperature,
   timeLabel |-> DateTimeLabel(d.timestamp)]

\* a faulty variant: the palette is indexed one too far
ResultColorOffByOne(b, i, body) ==
  [id |-> i,
   name |-> b.files[i + 1],
   color |-> COLORS[((i + 1) % Len(COLORS)) + 1],
   data |-> [k \in 1..Len(body.data) |-> Shaped(body.data[k])],
   resampled |-> IF body.hasResampled
                   THEN [k \in 1..Len(body.resampled) |->
                           ShapedResampled(body.resampled[k])]
                   ELSE << >>,
   stats |-> body.stats]

\* the object pushed to results for files[i] and its response body
Result(b, i, body) ==
  [id |-> i,
   name |-> b.files[i + 1],
   color |-> COLORS[(i % Len(COLORS)) + 1],
   data |-> [k \in 1..Len(body.data) |-> Shaped(body.data[k])],
   resampled |-> IF body.hasResampled
                   THEN [k \in 1..Len(body.resampled) |->
                           ShapedResampled(body.resampled[k])]
                   ELSE << >>,
   stats |-> body.stats]

\* a faulty variant: only a failed request is caught, a body without data is not
RejectedOnErrorOnly(m) == m.reply.kind = "error"

\* the await returns and the loop body runs without throwing
Fulfilled(m) == m.reply.kind = "ok" /\ m.reply.body.hasData

\* the await throws, or serie.map throws on a body without data
Rejected(m) == m.reply.kind = "error" \/ (m.reply.kind = "ok" /\ ~m.reply.body.hasData)

\* a faulty variant: setSeries(results) sits inside the loop
LoopDoneAfterFirst(b) == b.i >= 1

\* the loop is over: i < files.length is false
LoopDone(b) == ~(b.i < Len(b.files))

\* onUpload resumed by a response: push the result, then either issue the
\* next request or setSeries(results) and, in finally, setLoading(false)
onUploadFulfilled(m) ==
  /\ m \in net
  /\ runs[m.run] # NoRun
  /\ Fulfilled(m)
  /\ LET b0 == runs[m.run]
         b == [b0 EXCEPT !.results = Append(@, Result(b0, m.idx, m.reply.body)),
                         !.i = m.idx + 1]
     IN IF LoopDone(b)
          THEN /\ series' = b.results
               /\ loading' = FALSE
               /\ runs' = [runs EXCEPT ![m.run] = NoRun]
               /\ net' = net \ {m}
          ELSE /\ runs' = [runs EXCEPT ![m.run] = b]
               /\ net' = (net \ {m}) \cup IssueRequests(m.run, b)
               /\ UNCHANGED <<series, loading>>
  /\ sinceReset' = IF sinceReset >= 0
                     THEN sinceReset + Cardinality(net' \ net)
                     ELSE sinceReset
  /\ UNCHANGED <<files, uploadError, hiddenKeys, dateRange, pdf>>

\* a faulty variant: the detail of the response, with no fallback
ErrorMessageDetailOnly(reply) == reply.detail

\* err?.response?.data?.detail || "Falha no upload/processamento"
ErrorMessage(reply) ==
  IF reply.kind = "error" /\ reply.detail # "" THEN reply.detail ELSE GenericError

\* a faulty variant: the catch block keeps what the loop had gathered
onUploadRejectedKeepingResults(m) ==
  /\ m \in net
  /\ runs[m.run] # NoRun
  /\ Rejected(m)
  /\ uploadError' = ErrorMessage(m.reply)
  /\ series' = runs[m.run].results
  /\ loading' = FALSE
  /\ runs' = [runs EXCEPT ![m.run] = NoRun]
  /\ net' = net \ {m}
  /\ UNCHANGED <<files, hiddenKeys, dateRange, sinceReset, pdf>>

\* a faulty variant: the failure is caught per file and the loop goes on with the
\* next file
onUploadRejectedPerFile(m) ==
  /\ m \in net
  /\ runs[m.run] # NoRun
  /\ Rejected(m)
  /\ uploadError' = ErrorMessage(m.reply)
  /\ LET b == [runs[m.run] EXCEPT !.i = m.idx + 1]
     IN IF LoopDone(b)
          THEN /\ series' = b.results
               /\ loading' = FALSE
               /\ runs' = [runs EXCEPT ![m.run] = NoRun]
               /\ net' = net \ {m}
          ELSE /\ runs' = [runs EXCEPT ![m.run] = b]
               /\ net' = (net \ {m}) \cup IssueRequests(m.run, b)
               /\ UNCHANGED <<series, loading>>
  /\ UNCHANGED <<files, hiddenKeys, dateRange, sinceReset, pdf>>

\* onUpload resumed by a failure: catch sets the message, finally clears
\* loading; results is dropped with the invocation
onUploadRejected(m) ==
  /\ m \in net
  /\ runs[m.run] # NoRun
  /\ Rejected(m)
  /\ uploadError' = ErrorMessage(m.reply)
  /\ loading' = FALSE
  /\ runs' = [runs EXCEPT ![m.run] = NoRun]
  /\ net' = net \ {m}
  /\ UNCHANGED <<files, series, hiddenKeys, dateRange, sinceReset, pdf>>

\* a faulty variant: reset also drops the invocation in flight and its request
onResetCancelling ==
  /\ files' = << >>
  /\ series' = << >>
  /\ uploadError' = ""
  /\ hiddenKeys' = << >>
  /\ dateRange' = EmptyRange
  /\ sinceReset' = 0
  /\ runs' = [r \in 1..MaxRuns |-> NoRun]
  /\ net' = { }
  /\ pdf' = Unmounted(pdf)
  /\ UNCHANGED loading

\* a faulty variant: the period is left as it is
onResetKeepingPeriod ==
  /\ files' = << >>
  /\ series' = << >>
  /\ uploadError' = ""
  /\ hiddenKeys' = << >>
  /\ sinceReset' = 0
  /\ pdf' = Unmounted(pdf)
  /\ UNCHANGED <<loading, dateRange, runs, net>>

\* onReset: the five setters; loading and the invocation in flight are not
\* touched
onReset ==
  /\ files' = << >>
  /\ series' = << >>
  /\ uploadError' = ""
  /\ hiddenKeys' = << >>
  /\ dateRange' = EmptyRange
  /\ sinceReset' = 0
  /\ pdf' = Unmounted(pdf)
  /\ UNCHANGED <<loading, runs, net>>

---------------------------------------------------------------------------
(* Visibility/Stats Selector and the date inputs *)

\* toggleLine: remove the name if it is hidden, append it otherwise
Toggled(prev, name) ==
  IF Includes(prev, name)
    THEN SelectSeq(prev, LAMBDA n : n # name)
    ELSE Append(prev, name)

\* a click on a legend entry; the legend is part of the chart, rendered
\* when series.length > 0, with one entry per Line
toggleLine(name) ==
  /\ Len(series) > 0
  /\ \E k \in 1..Len(series) : series[k].name = name
  /\ hiddenKeys' = Toggled(hiddenKeys, name)
  /\ sinceReset' = -1
  /\ UNCHANGED <<files, series, loading, uploadError, dateRange, runs, net, pdf>>

\* the Início input, rendered when series.length > 0
setStart(v) ==
  /\ Len(series) > 0
  /\ dateRange' = [dateRange EXCEPT !.start = v]
  /\ sinceReset' = -1
  /\ UNCHANGED <<files, series, loading, uploadError, hiddenKeys, runs, net, pdf>>

\* the Fim input, rendered when series.length > 0
setEnd(v) ==
  /\ Len(series) > 0
  /\ dateRange' = [dateRange EXCEPT !.end = v]
  /\ sinceReset' = -1
  /\ UNCHANGED <<files, series, loading, uploadError, hiddenKeys, runs, net, pdf>>

\* series.filter((s) => !hiddenKeys.includes(s.name))
activeSeries == SelectSeq(series, LAMBDA s : ~Includes(hiddenKeys, s.name))

\* a faulty variant: "at least one" instead of "exactly one"
showStatsAtLeastOne ==
  IF Len(activeSeries) >= 1 THEN activeSeries[1].stats ELSE NoStats

\* activeSeries.length === 1 ? activeSeries[0].stats : null
showStats == IF Len(activeSeries) = 1 THEN activeSeries[1].stats ELSE NoStats

---------------------------------------------------------------------------
(* Range Filter and Alignment Engine: mergedData *)

\* the row of the Map `all` that has this label, as an index, or 0
RowIndex(all, label) ==
  IF \E k \in 1..Len(all) : all[k].timeLabel = label
    THEN CHOOSE k \in 1..Len(all) : all[k].timeLabel = label
    ELSE 0

\* row[name] = temperature, on the keys a row has besides timeLabel and
\* timestamp
SetKey(vals, name, temperature) ==
  [n \in (DOMAIN vals) \cup {name} |-> IF n = name THEN temperature ELSE vals[n]]

\* a faulty variant: the key is set only on a row that was just created
MergeSampleOnNewRowOnly(all, name, d) ==
  IF RowIndex(all, d.timeLabel) # 0 THEN all
  ELSE Append(all, [timeLabel |-> d.timeLabel,
                    timestamp |-> d.timestamp,
                    vals |-> SetKey([n \in {} |-> 0], name, d.temperature)])

\* a faulty variant: a key that is already set is not overwritten (the first sample
\* of a label wins)
MergeSampleFirstWins(all, name, d) ==
  LET has == RowIndex(all, d.timeLabel) # 0
      ext == IF has THEN all
             ELSE Append(all, [timeLabel |-> d.timeLabel,
                               timestamp |-> d.timestamp,
                               vals |-> [n \in {} |-> 0]])
      k == RowIndex(ext, d.timeLabel)
  IN [ext EXCEPT ![k].vals = IF name \in DOMAIN @ THEN @
                             ELSE SetKey(@, name, d.temperature)]

\* the body of s.data.forEach: create the row of d.timeLabel at the end of
\* the Map if it has none, then set the row's key s.name
MergeSample(all, name, d) ==
  LET has == RowIndex(all, d.timeLabel) # 0
      ext == IF has THEN all
             ELSE Append(all, [timeLabel |-> d.timeLabel,
                               timestamp |-> d.timestamp,
                               vals |-> [n \in {} |-> 0]])
      k == RowIndex(ext, d.timeLabel)
  IN [ext EXCEPT ![k].vals = SetKey(@, name, d.temperature)]

RECURSIVE MergeData(_, _, _)
\* s.data.forEach over the samples of one series, from sample j on; the
\* Map is bound to its value before the body of the loop uses it
MergeData(all, s, j) ==
  IF j > Len(s.data) THEN all
  ELSE LET rows == CHOOSE r \in {MergeSample(a, s.name, s.data[j]) : a \in {all}} : TRUE
       IN MergeData(rows, s, j + 1)

RECURSIVE MergeSeries(_, _, _)
\* series.forEach from series k on; the result is Array.from(all.values())
MergeSeries(all, ser, k) ==
  IF k > Len(ser) THEN all
  ELSE MergeSeries(MergeData(all, ser[k], 1), ser, k + 1)

\* a faulty variant: isAfter alone, the start bound is exclusive
AfterStartExclusive(t, range) ==
  IF range.start # NoBound THEN t > range.start ELSE TRUE

\* t.isAfter(x) || t.isSame(x), when the bound is set
AfterStart(t, range) ==
  IF range.start # NoBound THEN (t > range.start \/ t = range.start) ELSE TRUE

\* t.isBefore(x) || t.isSame(x), when the bound is set
BeforeEnd(t, range) ==
  IF range.end # NoBound THEN (t < range.end \/ t = range.end) ELSE TRUE

\* the period filter of mergedData
PeriodFilter(arr, range) ==
  IF range.start # NoBound \/ range.end # NoBound
    THEN SelectSeq(arr, LAMBDA row : AfterStart(row.timestamp, range)
                                     /\ BeforeEnd(row.timestamp, range))
    ELSE arr

\* a faulty variant: the rows are merged from the series that are not hidden
mergedRowsOfActive == MergeSeries(<< >>, activeSeries, 1)

\* let arr = Array.from(all.values()): the merged rows, before the period
\* filter
mergedRows == MergeSeries(<< >>, series, 1)

\* useMemo(..., [series, dateRange]): the rows the chart is given
mergedData == PeriodFilter(mergedRows, dateRange)

---------------------------------------------------------------------------
(* Resampled View Filter: resampledBySeries, and the rows of the tables *)

\* hasStart ? (t.isAfter(start) || t.isSame(start)) : true
okStart(t, range) ==
  IF range.start # NoBound THEN (t > range.start \/ t = range.start) ELSE TRUE

\* hasEnd ? (t.isBefore(end) || t.isSame(end)) : true
okEnd(t, range) ==
  IF range.end # NoBound THEN (t < range.end \/ t = range.end) ELSE TRUE

\* a faulty variant: the samples are filtered only when both bounds are set
ResampledRowsBothBounds(s, range) ==
  IF range.start # NoBound /\ range.end # NoBound
    THEN SelectSeq(s.resampled, LAMBDA r : okStart(r.timestamp, range)
                                           /\ okEnd(r.timestamp, range))
    ELSE s.resampled

\* (s.resampled || []).filter(...): the samples of one series in the period
ResampledRows(s, range) ==
  SelectSeq(s.resampled, LAMBDA r : okStart(r.timestamp, range)
                                    /\ okEnd(r.timestamp, range))

\* the series that series.forEach visits last among those of a name
LastOfName(name) ==
  CHOOSE k \in 1..Len(series) :
    /\ series[k].name = name
    /\ \A j \in (k + 1)..Len(series) : series[j].name # name

\* useMemo(..., [series, dateRange]): map[s.name] = rows for each series
resampledBySeries ==
  [name \in {series[k].name : k \in 1..Len(series)} |->
     ResampledRows(series[LastOfName(name)], dateRange)]

\* the rows of the table of series k: resampledBySeries[s.name] || []
TableRows(k) == resampledBySeries[series[k].name]

---------------------------------------------------------------------------
(* Report Composer: exportPDF *)

\* the canvases html2canvas returns: {width, height} in pixels; the heights
\* they get on the page are 80 and 200 mm
CanvasSizes ==
  { [width |-> 2 * PdfWidth, height |-> 160],
    [width |-> 4 * PdfWidth, height |-> 800] }

\* (canvas.height * pdfWidth) / canvas.width
ImgHeight(c) == (c.height * PdfWidth) \div c.width

\* pdf.addImage(img, "PNG", 10, y, pdfWidth - 20, h) on the current page
Image(of, c, page, y, h) ==
  [kind |-> "image", of |-> of, page |-> page, x |-> Margin, y |-> y,
   w |-> PdfWidth - 2 * Margin, h |-> h, src |-> c]

\* pdf.text(line, 10, y) on the current page; the line is described by what
\* it shows
Text(of, value, page, y) ==
  [kind |-> "text", of |-> of, page |-> page, x |-> Margin, y |-> y,
   w |-> 0, h |-> 0, src |-> [value |-> value]]

\* the five pdf.text calls of the stats block at statsY
StatsLines(st, page, statsY) ==
  << Text("min", st.min, page, statsY),
     Text("avg", st.avg, page, statsY + StatsLine),
     Text("max", st.max, page, statsY + 2 * StatsLine),
     Text("start", DateTimeLabel(st.start), page, statsY + 3 * StatsLine),
     Text("end", DateTimeLabel(st.end), page, statsY + 4 * StatsLine) >>

\* tablesEl.querySelectorAll(".table-wrap") with each element's
\* style.display: the rendered ones while the section is in the document,
\* the ones the invocation kept otherwise
Tables(p) == IF p.attached THEN TableElements ELSE p.tables

\* a faulty variant: the display of the tables is not looked at
NextTableAny(p, from) ==
  IF from < Len(Tables(p)) THEN from ELSE -1

\* the for loop from index `from` on (counted from 0): the first table
\* whose display is not "none", or -1 when the loop is over
NextTable(p, from) ==
  IF \E k \in from..(Len(Tables(p)) - 1) : ~Tables(p)[k + 1].hidden
    THEN CHOOSE k \in from..(Len(Tables(p)) - 1) :
           /\ ~Tables(p)[k + 1].hidden
           /\ \A j \in from..(k - 1) : Tables(p)[j + 1].hidden
    ELSE -1

\* the loop goes on from index `from`: html2canvas of the next table that
\* is displayed, or pdf.save("relatorio.pdf") when there is none
Continue(p, from) ==
  LET k == NextTable(p, from)
  IN IF k >= 0
       THEN [p EXCEPT !.pc = "table", !.i = k,
                      !.captured = Append(@, Tables(p)[k + 1].name)]
       ELSE [p EXCEPT !.pc = "saved"]

\* a faulty variant: the stats of the first series are taken, whatever is hidden
exportPDFStatsOfFirst ==
  /\ Len(series) > 0
  /\ pdf.pc \notin {"chart", "table"}
  /\ pdf' = [pc |-> "chart", showStats |-> series[1].stats, attached |-> TRUE,
             tables |-> << >>, i |-> 0, y |-> Margin, page |-> 1,
             doc |-> << >>, captured |-> << >>]
  /\ sinceReset' = -1
  /\ UNCHANGED <<files, series, loading, uploadError, hiddenKeys, dateRange,
                 runs, net>>

\* a click on Exportar PDF, rendered when series.length > 0: the elements
\* are looked up, the document is created, html2canvas(chartEl) is awaited;
\* the closure holds the showStats of the render that was clicked.  One
\* invocation is followed at a time.
exportPDF ==
  /\ Len(series) > 0
  /\ pdf.pc \notin {"chart", "table"}
  /\ pdf' = [pc |-> "chart", showStats |-> showStats, attached |-> TRUE,
             tables |-> << >>, i |-> 0, y |-> Margin, page |-> 1,
             doc |-> << >>, captured |-> << >>]
  /\ sinceReset' = -1
  /\ UNCHANGED <<files, series, loading, uploadError, hiddenKeys, dateRange,
                 runs, net>>

\* if (showStats), with the showStats of the closure
StatsBlockWritten(p) == p.showStats # NoStats

\* exportPDF resumed by the canvas of the chart: the chart is drawn at the
\* top of page 1, the stats block is written, and the loop over the tables
\* starts
exportChartCaptured(c) ==
  /\ pdf.pc = "chart"
  /\ LET chartHeight == ImgHeight(c)
         y1 == pdf.y + chartHeight + Gap
         withChart == [pdf EXCEPT !.doc = << Image("chart", c, pdf.page, pdf.y, chartHeight) >>,
                                  !.y = y1]
         withStats ==
           IF StatsBlockWritten(pdf)
             THEN [withChart EXCEPT !.doc = @ \o StatsLines(pdf.showStats, pdf.page, y1),
                                    !.y = y1 + StatsBlock]
             ELSE withChart
     IN pdf' = Continue(withStats, 0)
  /\ UNCHANGED <<files, series, loading, uploadError, hiddenKeys, dateRange,
                 runs, net, sinceReset>>

\* a faulty variant: the page is broken only when the cursor itself is past the
\* printable height
PageBreakByCursor(y, imgHeight) == y > PageHeight - Margin

\* if (y + imgHeight > pageHeight - 10)
PageBreak(y, imgHeight) == y + imgHeight > PageHeight - Margin

\* exportPDF resumed by the canvas of table i: a page is added when the
\* bitmap does not fit, the bitmap is drawn, and the loop goes on
exportTableCaptured(c) ==
  /\ pdf.pc = "table"
  /\ LET imgHeight == ImgHeight(c)
         break == PageBreak(pdf.y, imgHeight)
         page == IF break THEN pdf.page + 1 ELSE pdf.page
         y0 == IF break THEN Margin ELSE pdf.y
         name == pdf.captured[Len(pdf.captured)]
         drawn == [pdf EXCEPT !.doc = Append(@, Image(name, c, page, y0, imgHeight)),
                              !.page = page,
                              !.y = y0 + imgHeight + Gap]
     IN pdf' = Continue(drawn, pdf.i + 1)
  /\ UNCHANGED <<files, series, loading, uploadError, hiddenKeys, dateRange,
                 runs, net, sinceReset>>

\* html2canvas rejects for an element that has left the document: the
\* await throws and exportPDF ends without saving
exportCaptureRejected ==
  /\ pdf.pc \in {"chart", "table"}
  /\ ~pdf.attached
  /\ pdf' = [pdf EXCEPT !.pc = "failed"]
  /\ UNCHANGED <<files, series, loading, uploadError, hiddenKeys, dateRange,
                 runs, net, sinceReset>>

---------------------------------------------------------------------------
(* The specification *)

Init ==
  /\ files = << >>
  /\ series = << >>
  /\ loading = FALSE
  /\ uploadError = ""
  /\ hiddenKeys = << >>
  /\ dateRange = EmptyRange
  /\ runs = [r \in 1..MaxRuns |-> NoRun]
  /\ net = { }
  /\ sinceReset = -1
  /\ pdf = NoExport

Next ==
  \/ \E sel \in Selections : onFile(sel)
  \/ onUpload
  \/ \E m \in net : \E reply \in Replies(m.form.file) : serverReply(m, reply)
  \/ \E m \in net : onUploadFulfilled(m)
  \/ \E m \in net : onUploadRejected(m)
  \/ onReset
  \/ \E name \in FileNames : toggleLine(name)
  \/ \E v \in DateInputs : setStart(v)
  \/ \E v \in DateInputs : setEnd(v)

Spec == Init /\ [][Next]_vars

\* the selection of the specification with the export: a file whose
\* response has stats and one whose response has none
ExportSelections == { <<"A", "B">> }

\* the date inputs of the specification with the export: "" or the second
\* minute
ExportDateInputs == {NoBound, TicksPerMinute}

\* the program with the export
NextExport ==
  \/ \E sel \in ExportSelections : onFile(sel)
  \/ onUpload
  \/ \E m \in net : \E reply \in Replies(m.form.file) : serverReply(m, reply)
  \/ \E m \in net : onUploadFulfilled(m)
  \/ \E m \in net : onUploadRejected(m)
  \/ onReset
  \/ \E name \in FileNames : toggleLine(name)
  \/ \E v \in ExportDateInputs : setStart(v)
  \/ \E v \in ExportDateInputs : setEnd(v)
  \/ exportPDF
  \/ \E c \in CanvasSizes : exportChartCaptured(c)
  \/ \E c \in CanvasSizes : exportTableCaptured(c)
  \/ exportCaptureRejected

SpecExport == Init /\ [][NextExport]_vars

\* the selections of the specification of the batches: six files, and two
\* other files in another order
BatchSelections == { <<"A", "B", "C", "D", "E", "F">>, <<"B", "A">> }

\* the program with these selections, the store being left as the batches
\* commit it
NextBatch ==
  \/ \E sel \in BatchSelections : onFile(sel)
  \/ onUpload
  \/ \E m \in net : \E reply \in Replies(m.form.file) : serverReply(m, reply)
  \/ \E m \in net : onUploadFulfilled(m)
  \/ \E m \in net : onUploadRejected(m)
  \/ onReset

SpecBatch == Init /\ [][NextBatch]_vars

\* every request is answered in the end, and a promise that is settled
\* resumes the function that awaits it
BatchFairness ==
  /\ WF_vars(\E m \in net : \E reply \in Replies(m.form.file) : serverReply(m, reply))
  /\ WF_vars(\E m \in net : onUploadFulfilled(m))
  /\ WF_vars(\E m \in net : onUploadRejected(m))

SpecBatchFair == SpecBatch /\ BatchFairness

---------------------------------------------------------------------------
(* Claims on the Upload Orchestrator and the Stats Selector, under Spec *)

\* no user action happened since the last reset
ResetLast == sinceReset >= 0

\* the invocations of onUpload that are in flight
Busy == {r \in 1..MaxRuns : runs[r] # NoRun}

\* this step is the catch block handling the failed exchange m: the only
\* way an answered exchange leaves net is that its invocation resumes
CatchStep(m) == m \in net /\ Rejected(m) /\ m \notin net'

C2_NoPartialCommit ==
  [][series' # series =>
       \/ series' = << >>
       \/ \E m \in net :
            /\ Fulfilled(m)
            /\ runs[m.run] # NoRun
            /\ LET b == runs[m.run]
               IN /\ Len(series') = Len(b.files)
                  /\ m.idx = Len(b.files) - 1
                  /\ Len(b.results) = Len(b.files) - 1
                  /\ \A k \in 1..Len(series') :
                       /\ series'[k].name = b.files[k]
                       /\ series'[k].id = k - 1
                       /\ k <= Len(b.results) => series'[k] = b.results[k]
                  /\ Len(series'[Len(series')].data) = Len(m.reply.body.data)]_vars

\* the store holds the results of a whole three-file batch
C2_WholeBatchCommitted ==
  /\ Len(series) = 3
  /\ ~loading
  /\ net = { }

\* C3: an invocation in flight changes only by consuming the answer to its
\* own request; in particular a reset leaves the invocations, their
\* requests and loading as they are.
C3_ResetDoesNotCancel ==
  [][/\ \A r \in 1..MaxRuns :
          (runs[r] # NoRun /\ runs'[r] # runs[r]) =>
             \E m \in net : m.run = r /\ m.reply # NoReply /\ m \notin net'
     /\ (~ResetLast /\ ResetLast') => UNCHANGED <<runs, net, loading>>]_vars

\* the abandoned batch has landed: reset was the last user action, two
\* requests were issued after it, files is empty, and the store holds the
\* three results of the batch
C3_AbandonedBatchLanded ==
  /\ sinceReset = 2
  /\ files = << >>
  /\ Len(series) = 3
  /\ ~loading

\* C4: at most one upload request is outstanding; the outstanding request
\* is for the file that follows the results received so far, in the order
\* of the files selected when the batch started.
C4_SequentialInSelectionOrder ==
  /\ Cardinality(net) <= 1
  /\ \A m \in net :
       /\ runs[m.run] # NoRun
       /\ LET b == runs[m.run]
          IN /\ m.idx = Len(b.results)
             /\ m.idx < Len(b.files)
             /\ m.form.file = b.files[m.idx + 1]
             /\ \A k \in 1..Len(b.results) :
                  b.results[k].name = b.files[k] /\ b.results[k].id = k - 1

\* the third request of a batch is outstanding, and the selection was
\* changed after the batch started
C4_ThirdRequestOutstanding ==
  \E m \in net :
    /\ m.idx = 2
    /\ m.reply = NoReply
    /\ files # runs[m.run].files
    /\ files # << >>

\* C5: when the request for file k fails, the catch step leaves no request
\* outstanding, ends the invocation, leaves the store empty and sets an
\* error message; and a request for a file other than the first is issued
\* only by the step that receives the success of the file before it.
C5_FirstFailureAborts ==
  [][/\ \A m \in net : CatchStep(m) =>
          /\ net' = { }
          /\ runs'[m.run] = NoRun
          /\ series' = << >>
          /\ uploadError' # ""
          /\ ~loading'
     /\ \A n \in net' \ net :
          (n.reply = NoReply /\ n.idx > 0) =>
             \E m \in net : Fulfilled(m) /\ m.run = n.run /\ m.idx + 1 = n.idx
                             /\ m \notin net']_vars

\* the request for the second of three files has failed, one result has
\* been gathered and one file is left
C5_MiddleRequestFailed ==
  \E m \in net :
    /\ Rejected(m)
    /\ m.idx = 1
    /\ Len(runs[m.run].results) = 1
    /\ Len(runs[m.run].files) = 3

\* C6: at most one invocation of onUpload is in flight, and one is in
\* flight exactly while loading is true.
C6_SingleBatchInFlight ==
  /\ Cardinality(Busy) <= 1
  /\ loading <=> Busy # { }

\* a batch is in flight after a reset and a new selection: only loading
\* keeps the button disabled
C6_SelectionDuringUpload ==
  \E r \in Busy :
    /\ files # << >>
    /\ files # runs[r].files
    /\ uploadError = ""
    /\ hiddenKeys = << >>

\* the series of the store whose name is not hidden, by position
ActiveIndices ==
  {k \in 1..Len(series) :
     \A j \in 1..Len(hiddenKeys) : hiddenKeys[j] # series[k].name}

\* C7, as claimed: stats are shown iff exactly one series of the store is
\* not hidden.
C7_ShownIffOneActive ==
  (showStats # NoStats) <=> (Cardinality(ActiveIndices) = 1)

\* C7, amended: stats are shown iff exactly one series of the store is not
\* hidden and that series has stats; the stats shown are those of that
\* series; with no or several active series none are shown.
C7_ShownIffOneActiveWithStats ==
  /\ (showStats # NoStats) <=>
       /\ Cardinality(ActiveIndices) = 1
       /\ \A k \in ActiveIndices : series[k].stats # NoStats
  /\ \A k \in ActiveIndices :
       Cardinality(ActiveIndices) = 1 => showStats = series[k].stats

\* three series, two of them hidden: the stats of the third are shown
C7_ThreeSeriesTwoHidden ==
  /\ Len(series) = 3
  /\ Len(hiddenKeys) = 2
  /\ Cardinality(ActiveIndices) = 1
  /\ showStats # NoStats

\* the instant t is within the period, both bounds included
InRange(t, range) ==
  /\ (range.start = NoBound \/ t >= range.start)
  /\ (range.end = NoBound \/ t <= range.end)

\* how many elements of the sequence have their timestamp within the period
CountInRange(seq, range) ==
  Cardinality({i \in 1..Len(seq) : InRange(seq[i].timestamp, range)})

\* C11: a step that changes the hidden names and leaves the store and the
\* period alone changes neither the rows given to the chart nor the
\* resampled mapping, and the name of every series, hidden or not, is still
\* a key of the merged rows; a step that changes the period and leaves the
\* store alone gives the chart exactly the merged rows within the new
\* period and every table exactly its series' resampled samples within the
\* new period.
C11_ToggleKeepsRowsPeriodRefilters ==
  [][/\ (hiddenKeys' # hiddenKeys /\ series' = series /\ dateRange' = dateRange) =>
          /\ mergedData' = mergedData
          /\ resampledBySeries' = resampledBySeries
          /\ \A k \in 1..Len(series) :
               Len(series[k].data) > 0 =>
                 \E r \in 1..Len(mergedRows') :
                   series[k].name \in DOMAIN mergedRows'[r].vals
     /\ (dateRange' # dateRange /\ series' = series) =>
          /\ \A i \in 1..Len(mergedData') :
               InRange(mergedData'[i].timestamp, dateRange')
          /\ Len(mergedData') = CountInRange(mergedRows, dateRange')
          /\ \A k \in 1..Len(series) :
               /\ \A i \in 1..Len(TableRows(k)') :
                    InRange(TableRows(k)'[i].timestamp, dateRange')
               /\ Len(TableRows(k)') = CountInRange(series[k].resampled, dateRange')]_vars

\* a series is hidden and its name is still a key of a row given to the
\* chart, while the period has removed a row from the chart and a row from
\* a table
C11_HiddenSeriesKeptInRows ==
  /\ \E k \in 1..Len(series) :
       /\ Includes(hiddenKeys, series[k].name)
       /\ \E r \in 1..Len(mergedData) : series[k].name \in DOMAIN mergedData[r].vals
  /\ Len(mergedData) < Len(mergedRows)
  /\ \E k \in 1..Len(series) : Len(TableRows(k)) < Len(series[k].resampled)

\* this step is onReset: the five setters
ResetStep ==
  /\ files' = << >>
  /\ series' = << >>
  /\ uploadError' = ""
  /\ hiddenKeys' = << >>
  /\ dateRange' = EmptyRange
  /\ UNCHANGED <<loading, runs, net>>

\* C13: the hidden names change only by a reset or by the toggle of a name
\* of the store; the start of a batch and its commit leave them as they
\* are, and a committed series whose name is among them is hidden from the
\* step that commits it: it is not an active series and its table is not
\* displayed.
C13_BatchKeepsHiddenNames ==
  [][/\ hiddenKeys' # hiddenKeys =>
          \/ ResetStep
          \/ /\ series' = series
             /\ \E k \in 1..Len(series) :
                  hiddenKeys' = Toggled(hiddenKeys, series[k].name)
     /\ (~loading /\ loading') => hiddenKeys' = hiddenKeys
     /\ (series' # series /\ series' # << >>) =>
          /\ hiddenKeys' = hiddenKeys
          /\ \A k \in 1..Len(series') :
               Includes(hiddenKeys, series'[k].name) =>
                 /\ \A j \in 1..Len(activeSeries') : activeSeries'[j].name # series'[k].name
                 /\ TableElements'[k].hidden]_vars

\* the store holds the batch A, B; C was hidden after A, so both were
\* hidden while the batch A, B, C was in the store: C is the name of no
\* series, and A has been hidden since before its series was committed
C13_StaleHiddenName ==
  /\ Len(series) = 2
  /\ series[1].name = "A"
  /\ series[2].name = "B"
  /\ hiddenKeys = <<"A", "C">>
  /\ Len(activeSeries) = 1
  /\ activeSeries[1].name = "B"

\* this step is a click on Processar: loading goes from false to true
UploadStartStep == ~loading /\ loading'

\* C14, as claimed: the error message is set only by the catch block of a
\* failed batch; once set, it changes only by becoming empty, at the start
\* of an upload or at a reset; the start of an upload and a reset leave it
\* empty; and as long as a reset is the last thing the user did, no attempt
\* has been started since and the message is empty.
C14_ErrorLifecycle ==
  [][/\ (uploadError' # uploadError /\ uploadError' # "") =>
          \E m \in net : CatchStep(m)
     /\ (uploadError # "" /\ uploadError' # uploadError) =>
          (uploadError' = "" /\ (ResetStep \/ UploadStartStep))
     /\ (ResetStep \/ UploadStartStep) => uploadError' = ""
     /\ ResetLast' => uploadError' = ""]_vars

\* C14, amended: as claimed, except that after a reset the message stays
\* empty until an attempt fails, whether it was started after the reset or
\* was in flight when the reset was made: while a reset is the last thing
\* the user did, the message is set only by the catch block of an invocation
\* that was already in flight.
C14_ErrorLifecycleWithAbandonedBatch ==
  [][/\ (uploadError' # uploadError /\ uploadError' # "") =>
          \E m \in net : CatchStep(m)
     /\ (uploadError # "" /\ uploadError' # uploadError) =>
          (uploadError' = "" /\ (ResetStep \/ UploadStartStep))
     /\ (ResetStep \/ UploadStartStep) => uploadError' = ""
     /\ (ResetLast' /\ uploadError' # "" /\ uploadError' # uploadError) =>
          /\ ResetLast
          /\ \E m \in net : CatchStep(m) /\ runs[m.run] # NoRun]_vars

\* a reset is the last thing the user did, and the batch it abandoned has
\* failed since: a message is shown for files that are no longer selected
C14_AbandonedBatchFailed ==
  /\ ResetLast
  /\ uploadError # ""
  /\ ~loading
  /\ files = << >>

\* C15: the catch block of a failed batch sets the message once: no message
\* was set for the batch before, the invocation ends and leaves no request
\* behind; the message is the detail of the failure response when it has
\* one, and the generic message otherwise, in particular for a success
\* response with no data.
C15_DetailElseGeneric ==
  [][\A m \in net : CatchStep(m) =>
       /\ uploadError = ""
       /\ uploadError' # ""
       /\ uploadError' = IF m.reply.kind = "error" /\ m.reply.detail # ""
                           THEN m.reply.detail
                           ELSE GenericError
       /\ (m.reply.kind = "ok" => uploadError' = "Falha no upload/processamento")
       /\ runs'[m.run] = NoRun
       /\ \A n \in net' : n.run # m.run]_vars

\* a batch has failed and the detail of the response is shown, with three
\* files selected
C15_DetailShown ==
  /\ uploadError = "detail"
  /\ Len(files) = 3
  /\ ~loading
  /\ series = << >>

\* C20: a batch keeps the files that were selected when it started; the
\* step that commits it stores one series per file of the batch, the i-th
\* (counted from 0) with id i, the name of the i-th file of the batch and
\* the color i mod 5 of the palette; a store has at most five series and
\* no two of them have the same color.
C20_CommittedSeriesIdentity ==
  [][/\ UploadStartStep =>
          \E r \in 1..MaxRuns : runs[r] = NoRun /\ runs'[r] # NoRun
                                 /\ runs'[r].files = files
     /\ \A r \in 1..MaxRuns :
          (runs[r] # NoRun /\ runs'[r] # NoRun) => runs'[r].files = runs[r].files
     /\ (series' # series /\ series' # << >>) =>
          \E r \in 1..MaxRuns :
            /\ runs[r] # NoRun
            /\ runs'[r] = NoRun
            /\ Len(series') = Len(runs[r].files)
            /\ \A k \in 1..Len(series') :
                 /\ series'[k].id = k - 1
                 /\ series'[k].name = runs[r].files[k]
                 /\ series'[k].color = COLORS[((k - 1) % 5) + 1]
     /\ Len(series') <= 5
     /\ \A j, k \in 1..Len(series') :
          j # k => series'[j].color # series'[k].color]_vars

\* a batch of the first five of six selected files was committed after the
\* selection had been replaced
C20_FiveSeriesAfterReselection ==
  /\ Len(series) = 5
  /\ series[5].name = "E"
  /\ series[5].color = COLORS[5]
  /\ files = <<"B", "A">>
  /\ ~loading

\* C21: the pending selection never holds more than five files, and every
\* change of it either empties it or sets it to the first five, in their
\* order, of what the file picker handed over (all of them when there are
\* at most five).
C21_AtMostFiveFiles ==
  [][/\ Len(files) <= 5
     /\ Len(files') <= 5
     /\ files' # files =>
          \/ files' = << >>
          \/ \E sel \in BatchSelections :
               /\ Len(files') = (IF Len(sel) > 5 THEN 5 ELSE Len(sel))
               /\ \A k \in 1..Len(files') : files'[k] = sel[k]]_vars

\* six files were selected and the first five are kept
C21_FirstFiveOfSix ==
  files = <<"A", "B", "C", "D", "E">>

\* C22: when every request is answered, an invocation of onUpload that is
\* in flight ends, and loading goes back to false; the step that ends it
\* sets loading to false and either stores one series per file of the batch
\* and leaves the message empty, or sets a message and leaves the store
\* empty.
C22_BatchTerminates ==
  /\ \A r \in 1..MaxRuns : (runs[r] # NoRun) ~> (runs[r] = NoRun)
  /\ loading ~> ~loading
  /\ [][\A r \in 1..MaxRuns :
          (runs[r] # NoRun /\ runs'[r] = NoRun) =>
            /\ ~loading'
            /\ \/ /\ Len(series') = Len(runs[r].files)
                  /\ series' # << >>
                  /\ uploadError' = ""
               \/ /\ uploadError' # ""
                  /\ series' = << >>]_vars

\* a batch of five files has ended with a message and an empty store
C22_FiveFileBatchFailed ==
  /\ ~loading
  /\ net = { }
  /\ Len(files) = 5
  /\ uploadError # ""
  /\ series = << >>

\* the state of the component: what the setters write
appState == <<files, series, uploadError, hiddenKeys, dateRange, loading>>

\* onReset would change nothing in this state
ResetChangesNothing == ~ENABLED (onReset /\ appState' # appState)

\* C26: a reset, whatever the state before it, leaves the selection, the
\* store, the hidden names, the message and the period at their initial
\* values and loading as it was, in one step; in the state it leaves, a
\* second reset changes nothing.
C26_ResetEffectIdempotent ==
  [][(sinceReset' = 0 /\ sinceReset # 0) =>
       /\ files' = << >>
       /\ series' = << >>
       /\ hiddenKeys' = << >>
       /\ uploadError' = ""
       /\ dateRange' = EmptyRange
       /\ loading' = loading
       /\ ResetChangesNothing']_vars

\* a reset during a batch that was started with a period set over a store
\* that was not empty: all is back to the initial values, loading stays true
C26_ResetDuringBatchWithPeriod ==
  /\ sinceReset = 0
  /\ loading
  /\ \E r \in Busy : /\ runs[r].dateRange.start # NoBound
                      /\ runs[r].storeBefore # << >>
  /\ appState = << << >>, << >>, "", << >>, EmptyRange, TRUE >>

---------------------------------------------------------------------------
(* The derived views on an arbitrary store: the store holds two series     *)
(* whose samples are drawn from MergeTimes, and the user sets the period   *)

\* timestamps of the samples: two instants of the first minute, and the
\* starts of the next two minutes
MergeTimes == {0, 1, TicksPerMinute, 2 * TicksPerMinute}

\* the sample sequences of a series, by their timestamps
TimeSeqs == UNION { [1..n -> MergeTimes] : n \in 0..MaxLen }

\* the date inputs: "" or the start of the second minute
MergeDateInputs == {NoBound, TicksPerMinute}

\* a committed series i named name whose samples have the timestamps ts;
\* every sample of the store has a temperature of its own
StoredSeries(i, name, ts) ==
  [id |-> i,
   name |-> name,
   color |-> COLORS[(i % Len(COLORS)) + 1],
   data |-> [j \in 1..Len(ts) |->
               Shaped([timestamp |-> ts[j], temperature |-> 10 * (i + 1) + j])],
   resampled |-> [j \in 1..Len(ts) |->
               ShapedResampled([timestamp |-> ts[j], temperature |-> 10 * (i + 1) + j])],
   stats |-> NoStats]

InitMerge ==
  /\ files = <<"A", "B">>
  /\ \E ts1 \in TimeSeqs, ts2 \in TimeSeqs :
       series = << StoredSeries(0, "A", ts1), StoredSeries(1, "B", ts2) >>
  /\ loading = FALSE
  /\ uploadError = ""
  /\ hiddenKeys = << >>
  /\ dateRange = EmptyRange
  /\ runs = [r \in 1..MaxRuns |-> NoRun]
  /\ net = { }
  /\ sinceReset = -1
  /\ pdf = NoExport

NextMerge ==
  \/ \E v \in MergeDateInputs : setStart(v)
  \/ \E v \in MergeDateInputs : setEnd(v)

SpecMerge == InitMerge /\ [][NextMerge]_vars

---------------------------------------------------------------------------
(* Claims on the Alignment Engine and the Range Filter, under SpecMerge *)

\* the samples of the store, as (series, sample) positions
SamplePositions ==
  {p \in (1..Len(series)) \X (1..MaxLen + 1) : p[2] <= Len(series[p[1]].data)}

\* the sample at a position
SampleAt(p) == series[p[1]].data[p[2]]

\* p comes before q in the traversal series by series, sample by sample
Earlier(p, q) == p[1] < q[1] \/ (p[1] = q[1] /\ p[2] < q[2])

\* the first position of the traversal that carries the label
FirstPosition(label) ==
  CHOOSE p \in SamplePositions :
    /\ SampleAt(p).timeLabel = label
    /\ \A q \in SamplePositions :
         SampleAt(q).timeLabel = label => (q = p \/ Earlier(p, q))

\* the last position of the traversal that carries the label in a series
\* of this name
LastPosition(name, label) ==
  CHOOSE p \in SamplePositions :
    /\ series[p[1]].name = name
    /\ SampleAt(p).timeLabel = label
    /\ \A q \in SamplePositions :
         (series[q[1]].name = name /\ SampleAt(q).timeLabel = label)
            => (q = p \/ Earlier(q, p))

\* the rows have each (series name, timeLabel) pair of the samples as a
\* present key of exactly one row, the row of that timeLabel, and no two
\* of them share a timeLabel
Complete(rows) ==
  /\ \A p \in SamplePositions :
       Cardinality({r \in 1..Len(rows) :
                      /\ rows[r].timeLabel = SampleAt(p).timeLabel
                      /\ series[p[1]].name \in DOMAIN rows[r].vals}) = 1
  /\ \A p \in SamplePositions :
       \A r \in 1..Len(rows) :
         (series[p[1]].name \in DOMAIN rows[r].vals
            /\ rows[r].vals[series[p[1]].name] = SampleAt(p).temperature)
           => rows[r].timeLabel = SampleAt(p).timeLabel
  /\ \A r1, r2 \in 1..Len(rows) :
       r1 # r2 => rows[r1].timeLabel # rows[r2].timeLabel

\* C8: every (series name, timeLabel) pair of the samples is a present key
\* of exactly one merged row, the row of that timeLabel, and no two merged
\* rows share a timeLabel; with no period set these are the rows the chart
\* is given.
C8_MergeCompleteness ==
  LET rows == mergedRows
  IN /\ Complete(rows)
     /\ dateRange = EmptyRange => mergedData = rows

\* both series have a sample of one label, and the first series has that
\* label twice: the one row of the label has both keys
C8_SharedAndRepeatedLabel ==
  /\ Len(series[1].data) = 2
  /\ series[1].data[1].timeLabel = series[1].data[2].timeLabel
  /\ Len(series[2].data) >= 1
  /\ series[2].data[1].timeLabel = series[1].data[1].timeLabel
  /\ \E r \in 1..Len(mergedRows) : DOMAIN mergedRows[r].vals = {"A", "B"}

\* C9: the merged rows are in the order in which their labels are first
\* met in the traversal; a row has the timestamp of the sample that
\* introduced its label and, under each name, the temperature of the last
\* sample of that label; the period filter keeps rows as they are and in
\* their order.
C9_FirstEncounterOrder ==
  LET rows == mergedRows
      shown == mergedData
      first == [r \in 1..Len(rows) |-> FirstPosition(rows[r].timeLabel)]
  IN /\ \A r1, r2 \in 1..Len(rows) : r1 < r2 => Earlier(first[r1], first[r2])
     /\ \A r \in 1..Len(rows) :
          /\ rows[r].timestamp = SampleAt(first[r]).timestamp
          /\ \A name \in DOMAIN rows[r].vals :
               rows[r].vals[name] =
                 SampleAt(LastPosition(name, rows[r].timeLabel)).temperature
     /\ \A i, j \in 1..Len(shown) :
          i < j =>
            \E r1, r2 \in 1..Len(rows) :
              r1 < r2 /\ rows[r1] = shown[i] /\ rows[r2] = shown[j]
     /\ \A i \in 1..Len(shown) : \E r \in 1..Len(rows) : rows[r] = shown[i]

\* each series is in time order, the period is bounded, and yet the rows
\* given to the chart go back in time; one label is repeated in a series
C9_RowsNotMonotonic ==
  /\ \A k \in 1..Len(series) :
       \A j \in 1..(Len(series[k].data) - 1) :
         series[k].data[j].timestamp <= series[k].data[j + 1].timestamp
  /\ dateRange.end # NoBound
  /\ Len(mergedData) = 2
  /\ mergedData[1].timestamp > mergedData[2].timestamp
  /\ Len(series[2].data) = 2
  /\ series[2].data[1].timeLabel = series[2].data[2].timeLabel
  /\ series[2].data[1].timestamp # series[2].data[2].timestamp

\* C10: a merged row is given to the chart iff its timestamp is at or
\* after the start, when start is set, and at or before the end, when end
\* is set; with both unset the chart is given the merged rows unchanged.
C10_InclusiveRangeFilter ==
  LET rows == mergedRows
      shown == mergedData
  IN /\ \A r \in 1..Len(rows) :
          (\E i \in 1..Len(shown) : shown[i] = rows[r])
            <=> /\ (dateRange.start = NoBound \/ rows[r].timestamp >= dateRange.start)
                /\ (dateRange.end = NoBound \/ rows[r].timestamp <= dateRange.end)
     /\ \A i \in 1..Len(shown) : \E r \in 1..Len(rows) : rows[r] = shown[i]
     /\ Len(shown) <= Len(rows)
     /\ dateRange = EmptyRange => shown = rows

\* start = end: of three merged rows, one before, one at and one after the
\* instant, exactly the row at the instant is left
C10_OnlyTheBoundaryRow ==
  /\ dateRange.start # NoBound
  /\ dateRange.start = dateRange.end
  /\ Len(mergedRows) = 3
  /\ \E r \in 1..3 : mergedRows[r].timestamp < dateRange.start
  /\ \E r \in 1..3 : mergedRows[r].timestamp > dateRange.end
  /\ Len(mergedData) = 1
  /\ mergedData[1].timestamp = dateRange.start

\* the positions of the resampled samples of series k that are within the
\* period
KeptPositions(k) ==
  {i \in 1..Len(series[k].resampled) :
     InRange(series[k].resampled[i].timestamp, dateRange)}

\* the n-th of these positions, in increasing order
NthKept(k, n) ==
  CHOOSE i \in KeptPositions(k) :
    Cardinality({j \in KeptPositions(k) : j < i}) = n - 1

\* C12: the resampled mapping has one entry per series name of the store,
\* and the entry of a series is the sequence of its resampled samples whose
\* own timestamp is within the period, bounds included, in their order; a
\* series with no such sample has the empty sequence as its entry.
C12_ResampledMappingFiltered ==
  LET map == resampledBySeries
  IN /\ DOMAIN map = {series[k].name : k \in 1..Len(series)}
     /\ \A k \in 1..Len(series) :
          LET rows == map[series[k].name]
          IN /\ Len(rows) = Cardinality(KeptPositions(k))
             /\ \A n \in 1..Len(rows) : rows[n] = series[k].resampled[NthKept(k, n)]
             /\ KeptPositions(k) = { } => rows = << >>

\* only the start is set; the first series has resampled samples and none
\* of them is within the period, the second has one sample before the
\* start and then one within the period
C12_EmptyAndPartialEntries ==
  /\ dateRange.start # NoBound
  /\ dateRange.end = NoBound
  /\ Len(series[1].resampled) = 2
  /\ resampledBySeries["A"] = << >>
  /\ Len(series[2].resampled) = 2
  /\ Len(resampledBySeries["B"]) = 1
  /\ resampledBySeries["B"][1] = series[2].resampled[2]

\* C25 (checked under Spec, whose files carry samples a year apart): every
\* key present in a row the chart is given comes from a sample whose own
\* timestamp is within the period, and every sample that supplies the value
\* of its series for its label and is within the period has its value in a
\* row the chart is given.
C25_FilteredRowsHoldInRangeSamples ==
  LET shown == mergedData
  IN /\ \A i \in 1..Len(shown) :
          \A name \in DOMAIN shown[i].vals :
            InRange(SampleAt(LastPosition(name, shown[i].timeLabel)).timestamp, dateRange)
     /\ \A p \in SamplePositions :
          (/\ p = LastPosition(series[p[1]].name, SampleAt(p).timeLabel)
           /\ InRange(SampleAt(p).timestamp, dateRange))
            => \E i \in 1..Len(shown) :
                 /\ shown[i].timeLabel = SampleAt(p).timeLabel
                 /\ series[p[1]].name \in DOMAIN shown[i].vals
                 /\ shown[i].vals[series[p[1]].name] = SampleAt(p).temperature

---------------------------------------------------------------------------
(* Claims on the Report Composer, under SpecExport *)

\* an invocation of exportPDF is in flight or has ended
Exporting(p) == p.pc # "idle"

\* the names of the tables drawn in the document, in the order of drawing
TablesDrawn(p) ==
  LET imgs == SelectSeq(p.doc, LAMBDA it : it.kind = "image" /\ it.of # "chart")
  IN [n \in 1..Len(imgs) |-> imgs[n].of]

\* this step resumes exportPDF with a canvas: the document grows
CaptureStep ==
  /\ pdf.pc \in {"chart", "table"}
  /\ pdf'.pc \in {"table", "saved"}
  /\ Len(pdf'.doc) > Len(pdf.doc)

\* the index from which the loop over the tables goes on in this step
LoopFrom == IF pdf.pc = "chart" THEN 0 ELSE pdf.i + 1

\* C16: when exportPDF resumes with a canvas, the loop goes to the first
\* table from its index on whose element is displayed, passing over those
\* that are not, and calls html2canvas for it alone, or saves when there is
\* none; while the sections are in the document an element is displayed
\* iff the name of its series is not hidden at that moment.  The chart is
\* drawn first, and the tables drawn are those captured, in store order,
\* each drawn before the next is captured.
C16_TablesFollowVisibility ==
  [][CaptureStep =>
       LET tabs == Tables(pdf)
           hid == [k \in 1..Len(tabs) |->
                     IF pdf.attached
                       THEN /\ tabs[k].name = series[k].name
                            /\ \E j \in 1..Len(hiddenKeys) : hiddenKeys[j] = series[k].name
                       ELSE tabs[k].hidden]
       IN /\ pdf'.pc = "table" =>
               /\ pdf'.i >= LoopFrom
               /\ pdf'.i < Len(tabs)
               /\ ~hid[pdf'.i + 1]
               /\ \A k \in (LoopFrom + 1)..pdf'.i : hid[k]
               /\ pdf'.captured = Append(pdf.captured, tabs[pdf'.i + 1].name)
               /\ TablesDrawn(pdf') = pdf.captured
          /\ pdf'.pc = "saved" =>
               /\ \A k \in (LoopFrom + 1)..Len(tabs) : hid[k]
               /\ pdf'.captured = pdf.captured
               /\ TablesDrawn(pdf') = pdf.captured
          /\ pdf'.doc[1].kind = "image"
          /\ pdf'.doc[1].of = "chart"
          /\ \A n \in 2..Len(pdf'.doc) : pdf'.doc[n].of # "chart"]_vars

\* the document was saved with the table of B alone: A was hidden when the
\* loop reached its table and has been shown again since
C16_TableSkippedWhileHidden ==
  /\ pdf.pc = "saved"
  /\ pdf.attached
  /\ Len(series) = 2
  /\ TablesDrawn(pdf) = <<"B">>
  /\ hiddenKeys = << >>

\* this step resumes exportPDF with the canvas of a table
TableStep == CaptureStep /\ pdf.pc = "table"

\* the bitmap this step has drawn
Drawn == pdf'.doc[Len(pdf'.doc)]

\* the rule of the page break: a table of scaled height h, with the cursor
\* at y, goes to the top margin of a new page if y + h exceeds the page
\* height minus the margin, and to y on the current page otherwise; the
\* cursor is then the position of the table plus h plus the gap
PlacedByRule ==
  /\ pdf.y + Drawn.h > PageHeight - Margin =>
       /\ pdf'.page = pdf.page + 1
       /\ Drawn.y = Margin
  /\ ~(pdf.y + Drawn.h > PageHeight - Margin) =>
       /\ pdf'.page = pdf.page
       /\ Drawn.y = pdf.y
  /\ Drawn.page = pdf'.page
  /\ pdf'.y = Drawn.y + Drawn.h + Gap

\* C17, as claimed: every table is placed by the rule, and every table
\* drawn ends at or above the page height minus the margin, whatever its
\* height.
C17_TablesEndAbovePrintableBottom ==
  [][TableStep =>
       /\ PlacedByRule
       /\ Drawn.y + Drawn.h <= PageHeight - Margin]_vars

\* C17, amended: every table is placed by the rule; a table whose scaled
\* height is at most the page height minus both margins ends at or above
\* the page height minus the margin, and a taller one is drawn at the top
\* margin of a new page and ends below it.
C17_TablesPlacedByRule ==
  [][TableStep =>
       /\ PlacedByRule
       /\ Drawn.h <= PageHeight - 2 * Margin =>
            Drawn.y + Drawn.h <= PageHeight - Margin
       /\ Drawn.h > PageHeight - 2 * Margin =>
            /\ pdf'.page = pdf.page + 1
            /\ Drawn.y = Margin
            /\ Drawn.y + Drawn.h > PageHeight - Margin]_vars

\* the document was saved with a table below the chart on page 1 and a
\* table at the top of page 2 that is higher than the printable height
C17_SecondTableOnNewPage ==
  /\ pdf.pc = "saved"
  /\ Len(pdf.doc) = 3
  /\ pdf.doc[2].page = 1
  /\ pdf.doc[2].y > Margin
  /\ pdf.doc[2].y + pdf.doc[2].h <= PageHeight - Margin
  /\ pdf.doc[3].page = 2
  /\ pdf.doc[3].y = Margin
  /\ pdf.doc[3].h > PageHeight - 2 * Margin

\* this step is a click on Exportar PDF
ExportStartStep == pdf'.pc = "chart" /\ pdf.pc # "chart"

\* this step resumes exportPDF with the canvas of the chart
ChartStep == CaptureStep /\ pdf.pc = "chart"

\* what the lines of the stats block show, in order
StatsShown(p) ==
  LET txt == SelectSeq(p.doc, LAMBDA it : it.kind = "text")
  IN [n \in 1..Len(txt) |-> <<txt[n].of, txt[n].src.value, txt[n].y>>]

\* C18: the export holds stats iff, when Exportar PDF is clicked, exactly
\* one series is not hidden and that series has stats, and these are its
\* stats; when it holds stats, the five lines min, avg, max, start and end
\* are written right after the chart, 8 apart from the cursor left by the
\* chart, and the cursor advances by 42; when it holds none, no line is
\* written and the cursor stays where the chart left it.
C18_StatsBlockIffOneActiveWithStats ==
  [][/\ ExportStartStep =>
          /\ (pdf'.showStats # NoStats) <=>
               /\ Cardinality(ActiveIndices) = 1
               /\ \A k \in ActiveIndices : series[k].stats # NoStats
          /\ \A k \in ActiveIndices :
               Cardinality(ActiveIndices) = 1 => pdf'.showStats = series[k].stats
     /\ ChartStep =>
          LET y1 == pdf'.doc[1].y + pdf'.doc[1].h + 10
              st == pdf.showStats
          IN IF st # NoStats
               THEN /\ StatsShown(pdf') =
                         << <<"min", st.min, y1>>,
                            <<"avg", st.avg, y1 + 8>>,
                            <<"max", st.max, y1 + 16>>,
                            <<"start", DateTimeLabel(st.start), y1 + 24>>,
                            <<"end", DateTimeLabel(st.end), y1 + 32>> >>
                    /\ \A n \in 2..6 : pdf'.doc[n].kind = "text" /\ pdf'.doc[n].page = 1
                    /\ Len(pdf'.doc) = 6
                    /\ pdf'.y = y1 + 42
               ELSE /\ StatsShown(pdf') = << >>
                    /\ Len(pdf'.doc) = 1
                    /\ pdf'.y = y1
     /\ TableStep => StatsShown(pdf') = StatsShown(pdf)]_vars

\* the document was saved with the stats block of A and the table of A
\* alone, B being hidden
C18_StatsOfTheOnlyActiveSeries ==
  /\ pdf.pc = "saved"
  /\ pdf.attached
  /\ hiddenKeys = <<"B">>
  /\ Len(StatsShown(pdf)) = 5
  /\ pdf.showStats = series[1].stats
  /\ TablesDrawn(pdf) = <<"A">>

\* C19: every bitmap of the document is drawn with the width of the page
\* minus both margins and with a height that keeps the proportions of its
\* canvas: height drawn * canvas width = canvas height * width drawn.
C19_AspectRatioPreserved ==
  pdf.pc # "idle" =>
    \A n \in 1..Len(pdf.doc) :
      pdf.doc[n].kind = "image" =>
        /\ pdf.doc[n].w = PdfWidth - 20
        /\ pdf.doc[n].h * pdf.doc[n].src.width = pdf.doc[n].src.height * pdf.doc[n].w

\* C23: in every state where loading is true the store is empty, and so the
\* controls rendered only for a non-empty store cannot be used: no legend
\* entry can be toggled, no bound of the period can be set and no export
\* can be started.
C23_StoreEmptyWhileLoading ==
  loading =>
    /\ series = << >>
    /\ \A name \in FileNames : ~ENABLED toggleLine(name)
    /\ \A v \in ExportDateInputs : ~ENABLED setStart(v) /\ ~ENABLED setEnd(v)
    /\ ~ENABLED exportPDF

\* a batch is in flight that was started over a non-empty store, while an
\* export started before it is still between two captures
C23_LoadingOverPreviousStore ==
  /\ loading
  /\ \E r \in Busy : runs[r].storeBefore # << >>
  /\ pdf.pc \in {"chart", "table"}

\* C24: in a saved document the stats block and the tables come from the
\* same hidden set: when the stats block is written, exactly one table is
\* drawn and the stats are those of its series; and when exactly one table
\* is drawn and its series has stats, the stats block is written.
C24_ExportSnapshotConsistent ==
  (pdf.pc = "saved" /\ pdf.attached) =>
    LET drawn == TablesDrawn(pdf)
    IN /\ StatsShown(pdf) # << >> =>
            /\ Len(drawn) = 1
            /\ \E k \in 1..Len(series) :
                 series[k].name = drawn[1] /\ pdf.showStats = series[k].stats
       /\ \A k \in 1..Len(series) :
            (drawn = << series[k].name >> /\ series[k].stats # NoStats) =>
              StatsShown(pdf) # << >>

====
